---- MODULE Spec2Model ----
(***************************************************************************)
(* Model of xpore/diffmod/io.py: the grouping pipeline (load_data), the    *)
(* HDF5 persistence of fitted models (save_models, load_models,            *)
(* save_result_table) and the result table (get_result_table_header,       *)
(* generate_result_table).                                                 *)
(*                                                                         *)
(* Each function is one action that draws its arguments from small sets    *)
(* and records the arguments and the outcome (the returned value, or the   *)
(* exception that ended the call) in the variables of its part.            *)
(*                                                                         *)
(* Python values whose type matters are tagged: [t |-> "int", v |-> "1"]   *)
(* is the int 1, [t |-> "str", v |-> "1"] the text '1' and                 *)
(* [t |-> "bytes", v |-> "1"] the byte string b'1'.                        *)
(***************************************************************************)
EXTENDS Integers, Sequences, FiniteSets, TLC

VARIABLES
    ld_pc,        \* load_data: "idle", "returned" or the exception raised
    ld_args,      \* load_data: the arguments of the last call
    ld_data,      \* load_data: the returned mapping key -> group
    model_h5,     \* the model container on disk: target -> position -> entry
    sm_pc,        \* save_models: "idle", "returned" or the exception raised
    sm_at,        \* save_models: the item at which the exception was raised
    sm_models,    \* save_models: the models argument, as its items in order
    sm_file,      \* save_models: its model_file handle: none, open, closed
    lm_pc,        \* load_models: "idle", "returned" or the exception raised
    lm_models,    \* load_models: the returned mapping key -> GMM inits
    lm_file,      \* load_models: its model_file handle
    sr_pc,        \* save_result_table: "idle", "returned" or the exception
    sr_file,      \* save_result_table: its out_file handle
    result_h5,    \* the result container on disk
    gt_pc,        \* generate_result_table: "idle", "returned" or the exception
    gt_args,      \* generate_result_table: models (in order) and cond2run_dict
    gt_table,     \* generate_result_table: the returned list of rows
    th_pc,        \* get_result_table_header: "idle" or "returned"
    th_header     \* get_result_table_header: the returned header

ld_vars == <<ld_pc, ld_args, ld_data>>
st_vars == <<model_h5, sm_pc, sm_at, sm_models, sm_file, lm_pc, lm_models, lm_file,
             sr_pc, sr_file, result_h5>>

rt_vars == <<gt_pc, gt_args, gt_table, th_pc, th_header>>

vars == <<ld_pc, ld_args, ld_data, model_h5, sm_pc, sm_at, sm_models, sm_file,
          lm_pc, lm_models, lm_file, sr_pc, sr_file, result_h5,
          gt_pc, gt_args, gt_table, th_pc, th_header>>

----------------------------------------------------------------------------
(* Bounds of the model. *)

\* Longest condition_names / run_names list passed to load_data.
MaxLen == 2
\* Most reads one run holds at one (position, kmer).
MaxReads == 2
\* Most models in the mapping passed to save_models.
MaxModels == 2
\* Most groups (rows of w and N, entries of group_names) of a fitted model.
MaxGroups == 2

----------------------------------------------------------------------------
(* Names and their lexicographic order (Python's sorted on str). *)

ConditionNames == {"c1", "c2", "c3"}
RunNames == {"run_a", "run_b", "run_c"}

Alphabet == <<"c1", "c2", "c3", "run_a", "run_b", "run_c">>

Rank(name) == CHOOSE i \in 1..Len(Alphabet) : Alphabet[i] = name

Range(s) == {s[i] : i \in 1..Len(s)}

SeqsUpTo(S, n) == UNION {[1..k -> S] : k \in 0..n}

\* sorted(list(set(x))): the distinct elements in ascending order.
RECURSIVE SortedSet(_)
SortedSet(S) ==
    IF S = {} THEN <<>>
    ELSE LET m == CHOOSE a \in S : \A b \in S : Rank(a) <= Rank(b)
         IN <<m>> \o SortedSet(S \ {m})

\* The sorted lists of distinct names of S.
SortedLists(S) == {SortedSet(T) : T \in SUBSET S}

\* [v] * n
Repeat(v, n) == [i \in 1..n |-> v]

Min(a, b) == IF a <= b THEN a ELSE b

----------------------------------------------------------------------------
(* load_data *)

\* get_dummies(x): the one-hot matrix (one row per sample, one column per
\* distinct label, columns in sorted label order) and the sorted labels.
get_dummies(x) ==
    LET labels == SortedSet(Range(x))
    IN [matrix |-> [i \in 1..Len(x) |-> [j \in 1..Len(labels) |-> x[i] = labels[j]]],
        labels |-> labels]

\* m.sum(axis=0) of a one-hot matrix with ncols columns.
ColumnSums(m, ncols) ==
    [j \in 1..ncols |-> Cardinality({i \in 1..Len(m) : m[i][j]})]

\* The (pos, kmer) pairs one run holds for the target.
RunPairs(data_dict, run_name) == DOMAIN data_dict[run_name]

\* set(position_kmer_pairs[0]).intersection(*position_kmer_pairs)
PairsFirstRunOnly(data_dict, run_names) == RunPairs(data_dict, run_names[1])

PositionKmerPairs(data_dict, run_names) ==
    {p \in RunPairs(data_dict, run_names[1]) :
        \A i \in 1..Len(run_names) : p \in RunPairs(data_dict, run_names[i])}

\* zip(condition_names, run_names): stops at the shorter list.
Zip(condition_names, run_names) ==
    [i \in 1..Min(Len(condition_names), Len(run_names)) |->
        [condition_name |-> condition_names[i], run_name |-> run_names[i]]]

\* The labels of the samples of one pair, concatenated over the zipped
\* (condition, run) list; data_dict[run][pair] is n_reads = len(norm_means).
RECURSIVE Labels(_, _, _, _)
Labels(data_dict, pair, zipped, field) ==
    IF zipped = <<>> THEN <<>>
    ELSE Repeat(IF field = "condition" THEN zipped[1].condition_name
                                       ELSE zipped[1].run_name,
                data_dict[zipped[1].run_name][pair])
         \o Labels(data_dict, pair, Tail(zipped), field)

\* The label-set test of line 53.
LabelSetsDifferNoConditionTest(condition_labels, run_labels, condition_names, run_names, pooling) ==
    \/ Len(condition_labels) = 0
    \/ (~pooling /\ Cardinality(Range(run_labels)) # Cardinality(Range(run_names)))

LabelSetsDiffer(condition_labels, run_labels, condition_names, run_names, pooling) ==
    \/ Len(condition_labels) = 0
    \/ Cardinality(Range(condition_labels)) # Cardinality(Range(condition_names))
    \/ (~pooling /\ Cardinality(Range(run_labels)) # Cardinality(Range(run_names)))

\* The coverage test of lines 58-64 on the column sums of x or r.
OutOfBoundsNoMinimum(sums, min_count, max_count) ==
    \E j \in DOMAIN sums : sums[j] > max_count

OutOfBounds(sums, min_count, max_count) ==
    \/ \E j \in DOMAIN sums : sums[j] < min_count
    \/ \E j \in DOMAIN sums : sums[j] > max_count

\* One pass of the loop of lines 39-68 for one pair: the group, and whether
\* it is kept.
Group(data_dict, pair, condition_names, run_names, min_count, max_count, pooling) ==
    LET zipped == Zip(condition_names, run_names)
        condition_labels == Labels(data_dict, pair, zipped, "condition")
        run_labels == Labels(data_dict, pair, zipped, "run")
        skip1 == LabelSetsDiffer(condition_labels, run_labels, condition_names, run_names, pooling)
        xd == get_dummies(condition_labels)
        rd == get_dummies(run_labels)
        sums == IF pooling THEN ColumnSums(xd.matrix, Len(xd.labels))
                           ELSE ColumnSums(rd.matrix, Len(rd.labels))
    IN [keep |-> ~skip1 /\ ~OutOfBounds(sums, min_count, max_count),
        group |-> [x |-> xd.matrix, r |-> rd.matrix,
                   condition_names |-> xd.labels, run_names |-> rd.labels,
                   y_condition_names |-> condition_labels, y_run_names |-> run_labels]]

\* load_data(idx, data_dict, condition_names, run_names, min_count,
\* max_count, pooling) for one target idx: the exception that ends it, or
\* the mapping (pos, kmer) -> group.
load_data(data_dict, condition_names, run_names, min_count, max_count, pooling) ==
    IF \E i \in 1..Len(run_names) : run_names[i] \notin DOMAIN data_dict
    THEN [pc |-> "KeyError", data |-> <<>>]                         \* line 31
    ELSE IF run_names = <<>>
    THEN [pc |-> "IndexError", data |-> <<>>]                       \* line 36
    ELSE
    LET pairs == PositionKmerPairs(data_dict, run_names)
        zipped == Zip(condition_names, run_names)
    IN IF \E p \in pairs : \E i \in 1..Len(zipped) :
              p \notin RunPairs(data_dict, zipped[i].run_name)
       THEN [pc |-> "KeyError", data |-> <<>>]                      \* line 42
       ELSE LET g(p) == Group(data_dict, p, condition_names, run_names,
                              min_count, max_count, pooling)
                kept == {p \in pairs : g(p).keep}
            IN [pc |-> "returned", data |-> [p \in kept |-> g(p).group]]

\* The inputs: data_dict[run][idx] holds, for every run of the data, some of
\* the pairs; the first pair with 0..MaxReads reads, the second with one.
Pairs == {<<"1", "AAAAA">>, <<"2", "CCCCC">>}
DataRuns == {"run_a", "run_b"}
DataConditions == {"c1", "c2"}
PairReads(pair) == IF pair[1] = "1" THEN 0..MaxReads ELSE {1}
DataDicts ==
    LET PerRun == UNION {{f \in [P -> 0..MaxReads] : \A p \in P : f[p] \in PairReads(p)} :
                         P \in SUBSET Pairs}
    IN [DataRuns -> PerRun]
MinCounts == {1, 2}
MaxCounts == {2, 3}
\* run_names: lists over the runs of the data, and one naming a run the
\* data does not hold.
LoadRunNames == SeqsUpTo(DataRuns, MaxLen) \cup {<<"run_a", "run_c">>}
LoadConditionNames == SeqsUpTo(DataConditions, MaxLen)

LdInit ==
    /\ ld_pc = "idle"
    /\ ld_args = <<>>
    /\ ld_data = <<>>

StInit ==
    /\ model_h5 = <<>>
    /\ sm_pc = "idle" /\ sm_at = 0 /\ sm_models = <<>> /\ sm_file = "none"
    /\ lm_pc = "idle" /\ lm_models = <<>> /\ lm_file = "none"
    /\ sr_pc = "idle" /\ sr_file = "none" /\ result_h5 = <<>>

RtInit ==
    /\ gt_pc = "idle" /\ gt_args = <<>> /\ gt_table = <<>>
    /\ th_pc = "idle" /\ th_header = <<>>

Init == LdInit /\ StInit /\ RtInit

LoadData ==
    /\ ld_pc = "idle"
    /\ \E data_dict \in DataDicts,
       condition_names \in LoadConditionNames,
       run_names \in LoadRunNames,
       min_count \in MinCounts, max_count \in MaxCounts, pooling \in BOOLEAN :
        LET out == load_data(data_dict, condition_names, run_names,
                             min_count, max_count, pooling)
        IN /\ ld_args' = [data_dict |-> data_dict, condition_names |-> condition_names,
                          run_names |-> run_names, min_count |-> min_count,
                          max_count |-> max_count, pooling |-> pooling]
           /\ ld_pc' = out.pc
           /\ ld_data' = out.data
           /\ UNCHANGED <<st_vars, rt_vars>>

LdNext == LoadData

SpecData == Init /\ [][LdNext]_vars

----------------------------------------------------------------------------
(* Claims about load_data, checked under SpecData. *)

LdReturned == ld_pc = "returned"

\* n_reads of one run at one pair in the arguments of the call.
ArgReads(run_name, pair) == ld_args.data_dict[run_name][pair]

ArgPresent(run_name, pair) ==
    /\ run_name \in DOMAIN ld_args.data_dict
    /\ pair \in DOMAIN ld_args.data_dict[run_name]

\* C4: every group load_data emits has a (position, context) pair that is
\* present under the target in every run of run_names; a pair missing from
\* one run is emitted for no run.
C4_EmittedPairInEveryRun ==
    LdReturned =>
        \A p \in DOMAIN ld_data :
            \A i \in 1..Len(ld_args.run_names) : ArgPresent(ld_args.run_names[i], p)

\* C4 witness: a call over two distinct runs that emits a group while the
\* other pair, held by one run only, is left out.
C4_Witness ==
    /\ LdReturned
    /\ Range(ld_args.run_names) = DataRuns
    /\ \E p, q \in Pairs :
          /\ p \in DOMAIN ld_data
          /\ q \notin DOMAIN ld_data
          /\ ArgPresent("run_a", q) /\ ~ArgPresent("run_b", q)

\* C5: for every emitted group the set of condition labels on its samples
\* equals the set of requested condition names, also with duplicate entries
\* in the lists and runs that contribute no reads.
C5_ConditionLabelsAreRequestedSet ==
    LdReturned =>
        \A p \in DOMAIN ld_data :
            Range(ld_data[p].y_condition_names) = Range(ld_args.condition_names)

\* C5 witness: parallel lists with a duplicate condition, one run with no
\* reads at the pair, and the group emitted.
C5_Witness ==
    /\ LdReturned
    /\ Len(ld_args.condition_names) = Len(ld_args.run_names)
    /\ Len(ld_args.condition_names) > Cardinality(Range(ld_args.condition_names))
    /\ \E p \in DOMAIN ld_data :
          \E i \in 1..Len(ld_args.run_names) : ArgReads(ld_args.run_names[i], p) = 0

InBounds(sums) ==
    \A j \in DOMAIN sums : ld_args.min_count <= sums[j] /\ sums[j] <= ld_args.max_count

\* C6: for every emitted group the column sums of x (pooling) or of r (not
\* pooling) lie in [min_count, max_count]; a group outside the bounds is
\* left out and the call still returns; with every run (each listed once)
\* below min_count and no pooling nothing is emitted.
C6_CoverageInBounds ==
    /\ LdReturned =>
          \A p \in DOMAIN ld_data :
              IF ld_args.pooling
              THEN InBounds(ColumnSums(ld_data[p].x, Len(ld_data[p].condition_names)))
              ELSE InBounds(ColumnSums(ld_data[p].r, Len(ld_data[p].run_names)))
    /\ (/\ ld_pc # "idle"
        /\ ld_args.run_names # <<>>
        /\ Range(ld_args.run_names) \subseteq DOMAIN ld_args.data_dict) => LdReturned
    /\ (/\ LdReturned
        /\ ~ld_args.pooling
        /\ Cardinality(Range(ld_args.run_names)) = Len(ld_args.run_names)
        /\ \A r \in Range(ld_args.run_names) : \A p \in Pairs :
              ArgPresent(r, p) => ArgReads(r, p) < ld_args.min_count) => DOMAIN ld_data = {}

\* C6 witness: one run per condition, both pairs in both runs with reads,
\* one group emitted and the other left out by the coverage test.
C6_Witness ==
    /\ LdReturned
    /\ ~ld_args.pooling
    /\ ld_args.run_names = <<"run_a", "run_b">>
    /\ ld_args.condition_names = <<"c1", "c2">>
    /\ \A r \in DataRuns : \A p \in Pairs : ArgPresent(r, p) /\ ArgReads(r, p) >= 1
    /\ \E p, q \in Pairs : p \in DOMAIN ld_data /\ q \notin DOMAIN ld_data

----------------------------------------------------------------------------
(* save_models, load_models, save_result_table *)

\* f with key k set to v (h5py item assignment, dict item assignment).
Put(f, k, v) == [x \in DOMAIN f \cup {k} |-> IF x = k THEN v ELSE f[x]]

\* str(position): an int becomes its decimal text, a str stays as it is.
Str(value) == [t |-> "str", v |-> value.v]

\* kmer.encode('UTF-8'): str -> bytes (only a str has the method).
Encode(value) == [t |-> "bytes", v |-> value.v]

\* [val.encode('UTF-8') for val in value] of a list of str, stored by h5py
\* as a fixed-length byte-string array.
EncodeList(value) == [t |-> "bytes_array", v |-> value.v]

\* An HDF5 group: its attributes and its members.
EmptyGroup == [attrs |-> <<>>, members |-> <<>>]

\* model_file[idx].create_group(position) raises ValueError when the name
\* exists already.
NeverExists(file, idx, position) == FALSE

PositionExists(file, idx, position) == position \in DOMAIN file[idx]

\* The nodes group written by lines 103-111: one group per node of the
\* model, empty when the node's params is None, else one dataset per param.
StoredNodes(model) ==
    [node_name \in DOMAIN model.nodes |->
        IF model.nodes[node_name].none THEN <<>>
        ELSE [param_name \in DOMAIN model.nodes[node_name].params |->
                 IF param_name = "group_names"
                 THEN EncodeList(model.nodes[node_name].params[param_name])
                 ELSE model.nodes[node_name].params[param_name]]]

\* One pass of the loop of lines 91-111: the file after it and "ok", or the
\* file as the exception leaves it and the exception.
SaveItem(file, item) ==
    LET idx == item.key[1]
        position == Str(item.key[2]).v
        kmer == item.key[3]
        f1 == IF idx \in DOMAIN file THEN file ELSE Put(file, idx, <<>>)
        created == Put(f1, idx, Put(f1[idx], position, EmptyGroup))
        entry == [attrs |-> Put(<<>>, "kmer", Encode(kmer)),
                  members |-> [info |-> item.model.info,
                               nodes |-> StoredNodes(item.model)]]
    IN IF PositionExists(f1, idx, position)
       THEN [pc |-> "ValueError", file |-> f1]                      \* line 97
       ELSE IF kmer.t # "str"
       THEN [pc |-> "AttributeError", file |-> created]             \* line 98
       ELSE [pc |-> "ok", file |-> Put(f1, idx, Put(f1[idx], position, entry))]

RECURSIVE SaveItems(_, _, _)
SaveItems(file, items, i) ==
    IF i > Len(items) THEN [pc |-> "returned", at |-> 0, file |-> file]
    ELSE LET one == SaveItem(file, items[i])
         IN IF one.pc # "ok" THEN [pc |-> one.pc, at |-> i, file |-> one.file]
            ELSE SaveItems(one.file, items, i + 1)

\* save_models(models, model_filepath): the file is opened with 'w' (empty),
\* the items are written in order, and model_file.close() on line 115 is
\* reached only when no statement before it raised.
save_models(models) ==
    LET out == SaveItems(<<>>, models, 1)
    IN [pc |-> out.pc, at |-> out.at, file |-> out.file,
        handle |-> IF out.pc = "returned" THEN "closed" ELSE "open"]

\* model_file[idx][position].attrs['kmer'] as h5py returns it: the bytes
\* stored (h5py 2), or a str (h5py 3 reads variable-length strings in
\* attributes as str).
ReadAttr(stored, vlen_as_str) ==
    IF vlen_as_str THEN [t |-> "str", v |-> stored.v] ELSE stored

Vocabulary == {"x", "y", "w", "mu_tau", "z"}

\* The inits['nodes'] of lines 137-144 for one stored entry.
Inits(entry) ==
    [node_name \in Vocabulary |->
        IF node_name \in DOMAIN entry.members.nodes
        THEN entry.members.nodes[node_name]
        ELSE <<>>]

\* Whether lines 138-144 raise KeyError on a stored entry: no kmer
\* attribute, no nodes group, or a node outside the pre-seeded names.
Malformed(entry) ==
    \/ "kmer" \notin DOMAIN entry.attrs
    \/ "nodes" \notin DOMAIN entry.members
    \/ \E node_name \in DOMAIN entry.members.nodes : node_name \notin Vocabulary

\* The (idx, position) visited by the loops of lines 135-136.
FileEntries(file) ==
    {e \in (DOMAIN file) \X UNION {DOMAIN file[i] : i \in DOMAIN file} :
        e[2] \in DOMAIN file[e[1]]}

\* load_models(model_filepath): model_file.close() on line 150 is reached
\* only when no statement before it raised.
load_models(file, vlen_as_str) ==
    LET entries == FileEntries(file)
        at(e) == file[e[1]][e[2]]
        key(e) == <<e[1], [t |-> "str", v |-> e[2]], ReadAttr(at(e).attrs["kmer"], vlen_as_str)>>
        of(k) == CHOOSE e \in entries : e[1] = k[1] /\ e[2] = k[2].v
    IN IF \E e \in entries : Malformed(at(e))
       THEN [pc |-> "KeyError", models |-> <<>>, handle |-> "open"]
       ELSE [pc |-> "returned",
             models |-> [k \in {key(e) : e \in entries} |-> Inits(at(of(k)))],
             handle |-> "closed"]

\* out_file['result'] = table: h5py stores a structured array whose text
\* fields are byte strings and raises TypeError for unicode fields.
Storable(table) == table.text_dtype = "S"

\* save_result_table(table, out_filepath): out_file.close() on line 76 is
\* reached only when the assignment on line 75 did not raise.
save_result_table(table) ==
    IF Storable(table)
    THEN [pc |-> "returned", file |-> Put(<<>>, "result", table), handle |-> "closed"]
    ELSE [pc |-> "TypeError", file |-> <<>>, handle |-> "open"]

\* The inputs.
Targets == {"g1", "g2"}
Positions == {[t |-> "int", v |-> "1"], [t |-> "int", v |-> "2"], [t |-> "str", v |-> "1"]}
Contexts == {[t |-> "str", v |-> "AAAAA"], [t |-> "str", v |-> "CCCCC"]}
ModelKeys == Targets \X Positions \X Contexts

FloatArray(shape, values) == [t |-> "float_array", shape |-> shape, v |-> values]
StrList(values) == [t |-> "str_list", v |-> values]
Node(params) == [none |-> FALSE, params |-> params]
NoParams == [none |-> TRUE, params |-> <<>>]

\* Two fitted models: one with every node, one with fewer nodes and the
\* groups in the other order.
GmmFull ==
    [info |-> [n_iterations |-> 3],
     nodes |-> [x |-> Node([group_names |-> StrList(<<"run_a", "run_b">>)]),
                y |-> Node([N |-> FloatArray(<<2, 2>>, <<6, 6, 4, 8>>)]),
                w |-> Node([concentration |-> FloatArray(<<2, 2>>, <<1, 3, 3, 1>>)]),
                mu_tau |-> Node([location |-> FloatArray(<<2>>, <<1, 2>>)]),
                z |-> NoParams]]
GmmPartial ==
    [info |-> [n_iterations |-> 1],
     nodes |-> [x |-> Node([group_names |-> StrList(<<"run_b", "run_a">>)]),
                y |-> Node([N |-> FloatArray(<<2, 2>>, <<4, 8, 6, 6>>)])]]
Gmms == {GmmFull, GmmPartial}

\* models.items(): up to MaxModels items with distinct keys.
ModelItems ==
    {items \in SeqsUpTo([key : ModelKeys, model : Gmms], MaxModels) :
        \A i, j \in 1..Len(items) : i # j => items[i].key # items[j].key}

Tables == {[text_dtype |-> d, rows |-> n] : d \in {"S", "U"}, n \in 0..1}

SaveModels ==
    /\ sm_pc = "idle"
    /\ sr_pc = "idle"
    /\ \E models \in ModelItems :
        LET out == save_models(models)
        IN /\ sm_models' = models
           /\ sm_pc' = out.pc
           /\ sm_at' = out.at
           /\ sm_file' = out.handle
           /\ model_h5' = out.file
    /\ UNCHANGED <<ld_vars, rt_vars, lm_pc, lm_models, lm_file, sr_pc, sr_file, result_h5>>

LoadModels ==
    /\ sm_pc # "idle"
    /\ lm_pc = "idle"
    /\ \E vlen_as_str \in BOOLEAN :
        LET out == load_models(model_h5, vlen_as_str)
        IN /\ lm_pc' = out.pc
           /\ lm_models' = out.models
           /\ lm_file' = out.handle
    /\ UNCHANGED <<ld_vars, rt_vars, model_h5, sm_pc, sm_at, sm_models, sm_file, sr_pc, sr_file, result_h5>>

SaveResultTable ==
    /\ sr_pc = "idle"
    /\ sm_pc = "idle"
    /\ \E table \in Tables :
        LET out == save_result_table(table)
        IN /\ sr_pc' = out.pc
           /\ sr_file' = out.handle
           /\ result_h5' = out.file
    /\ UNCHANGED <<ld_vars, rt_vars, model_h5, sm_pc, sm_at, sm_models, sm_file, lm_pc, lm_models, lm_file>>

StNext == SaveModels \/ LoadModels \/ SaveResultTable

SpecStore == Init /\ [][StNext]_vars

----------------------------------------------------------------------------
(* Claims about the persistence functions, checked under SpecStore. *)

SmItems == 1..Len(sm_models)

\* The container name of an item's position.
PositionText(i) == Str(sm_models[i].key[2]).v

\* Items that name a (target, position text) an earlier item named.
SmRepeats ==
    {j \in SmItems : \E i \in 1..(j - 1) :
        /\ sm_models[i].key[1] = sm_models[j].key[1]
        /\ PositionText(i) = PositionText(j)}

SmFirst(j) ==
    CHOOSE i \in 1..(j - 1) :
        /\ sm_models[i].key[1] = sm_models[j].key[1]
        /\ PositionText(i) = PositionText(j)

\* C2 (as claimed): after save_models(M) and load_models both return, every
\* key of M is a key of the loaded mapping, and the model under it has the
\* same parameter arrays, the same group_names order and the same context
\* text.
C2_RoundTripSameKey ==
    (sm_pc = "returned" /\ lm_pc = "returned") =>
        \A i \in SmItems :
            LET key == sm_models[i].key
                nodes == sm_models[i].model.nodes
            IN /\ key \in DOMAIN lm_models
               /\ \A node_name \in DOMAIN nodes :
                    \/ nodes[node_name].none
                    \/ \A param_name \in DOMAIN nodes[node_name].params :
                         LET saved == nodes[node_name].params[param_name]
                             loaded == lm_models[key][node_name][param_name]
                         IN IF param_name = "group_names" THEN loaded.v = saved.v
                            ELSE loaded = saved

\* C3 (as claimed): when save_models, load_models or save_result_table has
\* ended, by returning or by an exception, the file it opened is closed.
C3_FileClosedOnEveryExit ==
    /\ sm_pc # "idle" => sm_file = "closed"
    /\ lm_pc # "idle" => lm_file = "closed"
    /\ sr_pc # "idle" => sr_file = "closed"

\* C10: the container holds one entry per (target, position text). When two
\* keys of the mapping (contexts all str) share target and position text,
\* save_models ends with ValueError at the second of them and the entry of
\* the first is still the one written for the first; without such keys it
\* returns.
C10_RepeatedPositionRaises ==
    (sm_pc # "idle" /\ \A i \in SmItems : sm_models[i].key[3].t = "str") =>
        IF SmRepeats = {} THEN sm_pc = "returned"
        ELSE LET j == CHOOSE a \in SmRepeats : \A b \in SmRepeats : a <= b
                 i == SmFirst(j)
                 entry == model_h5[sm_models[i].key[1]][PositionText(i)]
             IN /\ sm_pc = "ValueError"
                /\ sm_at = j
                /\ entry.attrs["kmer"] = Encode(sm_models[i].key[3])
                /\ entry.members.nodes = StoredNodes(sm_models[i].model)
                /\ entry.members.info = sm_models[i].model.info

\* C10 witness: two keys with the same target and position and different
\* contexts, different models, and the call ended at the second.
C10_Witness ==
    /\ sm_pc = "ValueError"
    /\ sm_at = 2
    /\ sm_models[1].key[1] = sm_models[2].key[1]
    /\ sm_models[1].key[2] = sm_models[2].key[2]
    /\ sm_models[1].key[3] = [t |-> "str", v |-> "AAAAA"]
    /\ sm_models[2].key[3] = [t |-> "str", v |-> "CCCCC"]
    /\ sm_models[1].model # sm_models[2].model

----------------------------------------------------------------------------
(* get_result_table_header, generate_result_table *)

\* Real numbers are held in quarters: 4 is 1.0 and 6 is 1.5.

\* numpy's round(): the nearest integer, a tie going to the even one.
Round(v) ==
    LET q == v \div 4
        r == v % 4
    IN IF r < 2 THEN 4 * q
       ELSE IF r > 2 THEN 4 * (q + 1)
       ELSE IF q % 2 = 0 THEN 4 * q ELSE 4 * (q + 1)

RECURSIVE Flatten(_)
Flatten(ss) == IF ss = <<>> THEN <<>> ELSE Head(ss) \o Flatten(Tail(ss))

RECURSIVE Sum(_)
Sum(values) == IF values = <<>> THEN 0 ELSE Head(values) + Sum(Tail(values))

Reverse(pair) == <<pair[2], pair[1]>>

\* values[numpy.isin(group_names, names)]: the entries of the groups named
\* in names, in group order.
Pick(values, group_names, names) ==
    LET idxs == SelectSeq([g \in 1..Len(group_names) |-> g],
                          LAMBDA g : group_names[g] \in names)
    IN [k \in 1..Len(idxs) |-> values[idxs[k]]]

\* values[~numpy.isin(group_names, names)]
PickNot(values, group_names, names) ==
    LET idxs == SelectSeq([g \in 1..Len(group_names) |-> g],
                          LAMBDA g : group_names[g] \notin names)
    IN [k \in 1..Len(idxs) |-> values[idxs[k]]]

get_ordered_condition_run_names(cond2run_dict) ==
    [condition_names |-> SortedSet(DOMAIN cond2run_dict),
     run_names |-> SortedSet(UNION {Range(cond2run_dict[c]) : c \in DOMAIN cond2run_dict})]

\* itertools.combinations(condition_names, 2)
Combinations2(names) ==
    Flatten([i \in 1..Len(names) |->
                [k \in 1..(Len(names) - i) |-> <<names[i], names[i + k]>>]])

\* len(condition_names) > 2, the test of lines 175, 243 and 277.
HasOneVsAllFromTwo(condition_names) == Len(condition_names) >= 2

HasOneVsAll(condition_names) == Len(condition_names) > 2

\* A header entry: the column's name pattern and the names formatted into it.
HeaderCell(col, of) == [col |-> col, of |-> of]

FixedColumns == <<"idx", "position", "kmer", "mu_min", "mu_max", "sigma2_min",
                  "sigma2_max", "p_overlap", "x_x1", "y_x1", "x_x2", "y_x2">>

get_result_table_header(cond2run_dict) ==
    LET names == get_ordered_condition_run_names(cond2run_dict)
        condition_names == names.condition_names
        run_names == names.run_names
        pairs == Combinations2(condition_names)
        stats_pairwise ==
            Flatten([i \in 1..Len(pairs) |->
                <<HeaderCell("p_ws", pairs[i]), HeaderCell("ws_mean_diff", pairs[i]),
                  HeaderCell("abs_z_score", pairs[i])>>])
        stats_one_vs_all ==
            Flatten([i \in 1..Len(condition_names) |->
                <<HeaderCell("p_ws_vs_all", <<condition_names[i]>>),
                  HeaderCell("ws_mean_diff_vs_all", <<condition_names[i]>>),
                  HeaderCell("abs_z_score_vs_all", <<condition_names[i]>>)>>])
    IN [i \in 1..Len(FixedColumns) |-> HeaderCell(FixedColumns[i], <<>>)]
       \o [i \in 1..Len(run_names) |-> HeaderCell("w_min", <<run_names[i]>>)]
       \o [i \in 1..Len(run_names) |-> HeaderCell("coverage", <<run_names[i]>>)]
       \o stats_pairwise
       \o (IF HasOneVsAll(condition_names) THEN stats_one_vs_all ELSE <<>>)

\* A row entry: its value, with the column it is computed for.
Cell(col, of, v) == [col |-> col, of |-> of, v |-> v]

\* stats.calc_prob_overlapping(mu, sigma2): p_overlap and the four values
\* x1, y1, x2, y2, left uninterpreted.
calc_prob_overlapping(mu, sigma2) ==
    [p_overlap |-> [fn |-> "p_overlap", mu |-> mu, sigma2 |-> sigma2],
     list_cdf_at_intersections |->
        [i \in 1..4 |-> [fn |-> "cdf_at_intersection", i |-> i, mu |-> mu, sigma2 |-> sigma2]]]

\* stats.z_test(w_cond1, w_cond2, n_cond1, n_cond2): (z_score, p_ws), left
\* uninterpreted.
z_test(w_cond1, w_cond2, n_cond1, n_cond2) ==
    LET args == [w_cond1 |-> w_cond1, w_cond2 |-> w_cond2,
                 n_cond1 |-> n_cond1, n_cond2 |-> n_cond2]
    IN [z_score |-> [fn |-> "z_score", args |-> args], p_ws |-> [fn |-> "p_ws", args |-> args]]

\* abs(numpy.mean(w_cond1) - numpy.mean(w_cond2)) as a fraction; the mean of
\* an empty selection is nan.
MeanDiff(w_cond1, w_cond2) ==
    IF Len(w_cond1) = 0 \/ Len(w_cond2) = 0 THEN [nan |-> TRUE, num |-> 0, den |-> 1]
    ELSE LET d == Sum(w_cond1) * Len(w_cond2) - Sum(w_cond2) * Len(w_cond1)
         IN [nan |-> FALSE, num |-> IF d < 0 THEN -d ELSE d, den |-> Len(w_cond1) * Len(w_cond2)]

\* The three statistics of one test (lines 237-241 and 253-257).
StatsCells(suffix, of, w_cond1, w_cond2, n_cond1, n_cond2) ==
    LET t == z_test(w_cond1, w_cond2, n_cond1, n_cond2)
    IN <<Cell("p_ws" \o suffix, of, t.p_ws),
         Cell("ws_mean_diff" \o suffix, of, MeanDiff(w_cond1, w_cond2)),
         Cell("abs_z_score" \o suffix, of, [fn |-> "abs", of |-> t.z_score])>>

\* coverage = numpy.sum(model.nodes['y'].params['N'], axis=-1), line 222:
\* the sum of the stored counts; the rounded N of line 218 is not read.
CoverageOfRounded(model) ==
    [g \in 1..Len(model.N) |-> Round(model.N[g][1]) + Round(model.N[g][2])]

Coverage(model) ==
    [g \in 1..Len(model.N) |-> model.N[g][1] + model.N[g][2]]

\* Lines 260-264: the lower-mean component first.
NormalisedWithoutFlip(mu, sigma2, w0) ==
    IF mu[2] < mu[1]
    THEN [mu |-> Reverse(mu), sigma2 |-> Reverse(sigma2), w_min |-> w0]
    ELSE [mu |-> mu, sigma2 |-> sigma2, w_min |-> w0]

Normalised(mu, sigma2, w0) ==
    IF mu[2] < mu[1]
    THEN [mu |-> Reverse(mu), sigma2 |-> Reverse(sigma2),
          w_min |-> [g \in 1..Len(w0) |-> 4 - w0[g]]]
    ELSE [mu |-> mu, sigma2 |-> sigma2, w_min |-> w0]

\* One pass of the loop of lines 210-280: the row, or the exception.
\* w[:, 0].squeeze() of a model with one group is 0-dimensional, and
\* indexing it with the one-entry mask on line 268 raises IndexError.
Row(item, cond2run_dict) ==
    LET model == item.model
        names == get_ordered_condition_run_names(cond2run_dict)
        condition_names == names.condition_names
        run_names == names.run_names
        mu == model.mu
        sigma2 == model.sigma2
        w0 == [g \in 1..Len(model.w) |-> model.w[g][1]]
        coverage == Coverage(model)
        overlap == calc_prob_overlapping(mu, sigma2)
        model_group_names == model.group_names
        pairs == Combinations2(condition_names)
        stats_pairwise ==
            Flatten([i \in 1..Len(pairs) |->
                LET runs1 == Range(cond2run_dict[pairs[i][1]])
                    runs2 == Range(cond2run_dict[pairs[i][2]])
                IN StatsCells("", pairs[i],
                              Pick(w0, model_group_names, runs1),
                              Pick(w0, model_group_names, runs2),
                              Pick(coverage, model_group_names, runs1),
                              Pick(coverage, model_group_names, runs2))])
        stats_one_vs_all ==
            Flatten([i \in 1..Len(condition_names) |->
                LET runs1 == Range(cond2run_dict[condition_names[i]])
                IN StatsCells("_vs_all", <<condition_names[i]>>,
                              Pick(w0, model_group_names, runs1),
                              PickNot(w0, model_group_names, runs1),
                              Pick(coverage, model_group_names, runs1),
                              PickNot(coverage, model_group_names, runs1))])
        n == Normalised(mu, sigma2, w0)
        w_min_ordered ==
            Flatten([i \in 1..Len(run_names) |->
                LET picked == Pick(n.w_min, model_group_names, {run_names[i]})
                IN [k \in 1..Len(picked) |-> Cell("w_min", <<run_names[i]>>, picked[k])]])
        coverage_ordered ==
            Flatten([i \in 1..Len(run_names) |->
                LET picked == Pick(coverage, model_group_names, {run_names[i]})
                IN [k \in 1..Len(picked) |-> Cell("coverage", <<run_names[i]>>, picked[k])]])
    IN IF Len(model_group_names) = 1 /\ run_names # <<>>
       THEN [pc |-> "IndexError", row |-> <<>>]
       ELSE [pc |-> "ok",
             row |-> <<Cell("idx", <<>>, item.key[1]), Cell("position", <<>>, item.key[2]),
                       Cell("kmer", <<>>, item.key[3]),
                       Cell("mu_min", <<>>, n.mu[1]), Cell("mu_max", <<>>, n.mu[2]),
                       Cell("sigma2_min", <<>>, n.sigma2[1]), Cell("sigma2_max", <<>>, n.sigma2[2]),
                       Cell("p_overlap", <<>>, overlap.p_overlap)>>
                     \o [i \in 1..Len(overlap.list_cdf_at_intersections) |->
                            Cell("cdf_at_intersection", <<>>, overlap.list_cdf_at_intersections[i])]
                     \o w_min_ordered \o coverage_ordered
                     \o stats_pairwise
                     \o (IF HasOneVsAll(condition_names) THEN stats_one_vs_all ELSE <<>>)]

\* generate_result_table(models, cond2run_dict): one row per model, in the
\* order of models.items(); an exception in one row ends the call.
generate_result_table(models, cond2run_dict) ==
    LET rows == [i \in 1..Len(models) |-> Row(models[i], cond2run_dict)]
    IN IF \E i \in 1..Len(models) : rows[i].pc # "ok"
       THEN [pc |-> rows[CHOOSE i \in 1..Len(models) :
                            rows[i].pc # "ok" /\ \A j \in 1..(i - 1) : rows[j].pc = "ok"].pc,
             table |-> <<>>]
       ELSE [pc |-> "returned", table |-> [i \in 1..Len(models) |-> rows[i].row]]

\* The inputs. A fitted model, as far as the table reads it: group_names of
\* node x, the expectation w of node w (each row sums to 1), N of node y,
\* and mu and sigma2 of node mu_tau.
GroupProfiles == <<[w |-> <<1, 3>>, N |-> <<6, 6>>], [w |-> <<3, 1>>, N |-> <<4, 8>>]>>
Mus == {<<4, 8>>, <<8, 4>>, <<8, 8>>}
Sigma2 == <<1, 3>>
\* group_names are the sorted distinct run labels get_dummies returns; the
\* groups take the two profiles in turn, starting with either.
FittedGmms ==
    UNION {{[group_names |-> group_names,
             w |-> [g \in 1..G |-> GroupProfiles[1 + ((g + first) % 2)].w],
             N |-> [g \in 1..G |-> GroupProfiles[1 + ((g + first) % 2)].N],
             mu |-> mu, sigma2 |-> Sigma2] :
               group_names \in {names \in SortedLists(RunNames) : Len(names) = G},
               first \in {0, 1},
               mu \in Mus} : G \in 1..MaxGroups}

TableKeys == <<<<"g1", "1", "AAAAA">>, <<"g1", "2", "CCCCC">>>>

\* models.items(): one model, or two models over the same two runs.
TableModels ==
    {<<[key |-> TableKeys[1], model |-> m]>> : m \in FittedGmms}
    \cup {<<[key |-> TableKeys[1], model |-> a], [key |-> TableKeys[2], model |-> b]>> :
            a, b \in {m \in FittedGmms : /\ m.group_names \in {<<"run_a", "run_b">>, <<"run_c">>}
                                         /\ m.mu = <<8, 4>>
                                         /\ m.w[1] = <<1, 3>>}}

RunLists == {<<"run_a">>, <<"run_b">>, <<"run_c", "run_a">>}
Cond2Runs == UNION {[D -> RunLists] : D \in SUBSET ConditionNames}

GenerateResultTable ==
    /\ gt_pc = "idle"
    /\ \E models \in TableModels, cond2run_dict \in Cond2Runs :
        LET out == generate_result_table(models, cond2run_dict)
        IN /\ gt_args' = [models |-> models, cond2run_dict |-> cond2run_dict]
           /\ gt_pc' = out.pc
           /\ gt_table' = out.table
    /\ UNCHANGED <<ld_vars, st_vars, th_pc, th_header>>

\* The header for the mapping the table was generated for.
GetResultTableHeader ==
    /\ gt_pc # "idle"
    /\ th_pc = "idle"
    /\ th_pc' = "returned"
    /\ th_header' = get_result_table_header(gt_args.cond2run_dict)
    /\ UNCHANGED <<ld_vars, st_vars, gt_pc, gt_args, gt_table>>

RtNext == GenerateResultTable \/ GetResultTableHeader

SpecTable == Init /\ [][RtNext]_vars

----------------------------------------------------------------------------
(* Claims about the result table, checked under SpecTable. *)

GtReturned == gt_pc = "returned"
GtRows == 1..Len(gt_table)
GtModel(i) == gt_args.models[i].model
GtNames == get_ordered_condition_run_names(gt_args.cond2run_dict)

\* The cells of a row computed for the columns named in cols, in row order.
CellsOf(row, cols) == SelectSeq(row, LAMBDA c : c.col \in cols)
ValuesOf(cells) == [k \in 1..Len(cells) |-> cells[k].v]

VsAllColumns == {"p_ws_vs_all", "ws_mean_diff_vs_all", "abs_z_score_vs_all"}

\* No run is listed under two conditions.
EachRunInOneCondition(cond2run_dict) ==
    \A c, d \in DOMAIN cond2run_dict :
        c # d => Range(cond2run_dict[c]) \cap Range(cond2run_dict[d]) = {}

\* C1 (as claimed): for a mapping with each run under at most one
\* condition, every row generate_result_table returns has as many entries
\* as the header get_result_table_header returns for that mapping.
C1_RowLengthIsHeaderLength ==
    (GtReturned /\ th_pc = "returned" /\ EachRunInOneCondition(gt_args.cond2run_dict)) =>
        \A i \in GtRows : Len(gt_table[i]) = Len(th_header)

\* C7: the header and every row hold the one-vs-all statistics (p,
\* mean_diff, abs_z for each condition) exactly when cond2run has more than
\* two distinct condition names.
C7_OneVsAllIffMoreThanTwo ==
    LET conditions == DOMAIN gt_args.cond2run_dict
        complete(cells) ==
            \A c \in conditions : \A col \in VsAllColumns :
                \E k \in 1..Len(cells) : cells[k].col = col /\ cells[k].of = <<c>>
    IN /\ th_pc = "returned" =>
            IF Cardinality(conditions) > 2
            THEN complete(th_header)
            ELSE CellsOf(th_header, VsAllColumns) = <<>>
       /\ GtReturned =>
            \A i \in GtRows :
                IF Cardinality(conditions) > 2
                THEN complete(gt_table[i])
                ELSE CellsOf(gt_table[i], VsAllColumns) = <<>>

\* C7 witness: three conditions, a row and the header, both with the
\* one-vs-all entries.
C7_Witness ==
    /\ GtReturned /\ th_pc = "returned"
    /\ Cardinality(DOMAIN gt_args.cond2run_dict) = 3
    /\ Len(gt_table) >= 1
    /\ Len(CellsOf(gt_table[1], VsAllColumns)) = 9
    /\ Len(CellsOf(th_header, VsAllColumns)) = 9

\* The component with the lower mean; component 1 on a tie (mu[0] <= mu[1]).
LowerComponent(model) == IF model.mu[1] <= model.mu[2] THEN 1 ELSE 2

\* C8: in every row mu_min <= mu_max, mu and sigma2 are those of the
\* lower-mean and the higher-mean component, and each w_min of a run is the
\* weight of the lower-mean component in that run's group.
C8_LowerMeanComponentFirst ==
    GtReturned =>
        \A i \in GtRows :
            LET m == GtModel(i)
                row == gt_table[i]
                lo == LowerComponent(m)
                hi == 3 - lo
                w_lo == [g \in 1..Len(m.w) |-> m.w[g][lo]]
            IN /\ row[4].v <= row[5].v
               /\ row[4].v = m.mu[lo] /\ row[5].v = m.mu[hi]
               /\ row[6].v = m.sigma2[lo] /\ row[7].v = m.sigma2[hi]
               /\ ValuesOf(CellsOf(row, {"w_min"})) =
                    Flatten([k \in 1..Len(GtNames.run_names) |->
                                Pick(w_lo, m.group_names, {GtNames.run_names[k]})])

\* C8 witness: a row of a model whose second component has the lower mean,
\* with a w_min entry for each of two runs.
C8_Witness ==
    /\ GtReturned
    /\ Len(gt_table) >= 1
    /\ GtModel(1).mu[2] < GtModel(1).mu[1]
    /\ Len(CellsOf(gt_table[1], {"w_min"})) = 2

\* The weights n_cond1, n_cond2 of every test of a row agree with the
\* per-group coverage cov of the row's model.
TestWeightsAre(row, m, cov) ==
    \A k \in 1..Len(row) :
        row[k].col \in {"p_ws", "p_ws_vs_all"} =>
            LET runs1 == Range(gt_args.cond2run_dict[row[k].of[1]])
                args == row[k].v.args
            IN /\ args.n_cond1 = Pick(cov, m.group_names, runs1)
               /\ args.n_cond2 =
                    IF row[k].col = "p_ws"
                    THEN Pick(cov, m.group_names, Range(gt_args.cond2run_dict[row[k].of[2]]))
                    ELSE PickNot(cov, m.group_names, runs1)

\* The coverage entries of a row are cov in sorted run order, and the tests
\* are weighted by cov.
CoverageIs(row, m, cov) ==
    /\ ValuesOf(CellsOf(row, {"coverage"})) =
         Flatten([k \in 1..Len(GtNames.run_names) |->
                     Pick(cov, m.group_names, {GtNames.run_names[k]})])
    /\ TestWeightsAre(row, m, cov)

\* C9 (as claimed): the coverage reported per run and used to weight the
\* tests is N[:,0] + N[:,1] of the rounded N.
C9_CoverageOfRoundedCounts ==
    GtReturned =>
        \A i \in GtRows :
            CoverageIs(gt_table[i], GtModel(i),
                       [g \in 1..Len(GtModel(i).N) |->
                           Round(GtModel(i).N[g][1]) + Round(GtModel(i).N[g][2])])

\* C9 (amended): the coverage reported per run and used to weight the tests
\* is N[:,0] + N[:,1] of the counts as stored, not rounded.
C9_CoverageOfStoredCounts ==
    GtReturned =>
        \A i \in GtRows :
            CoverageIs(gt_table[i], GtModel(i),
                       [g \in 1..Len(GtModel(i).N) |->
                           GtModel(i).N[g][1] + GtModel(i).N[g][2]])

\* C9 witness: a row with coverage entries and tests, of a model whose
\* stored counts are 1.5 and 1.5 in one group: 3 reads, where the rounded
\* counts add up to 4.
C9_Witness ==
    /\ GtReturned
    /\ Len(gt_table) >= 1
    /\ GtModel(1).N[1] = <<6, 6>>
    /\ \E k \in 1..Len(gt_table[1]) :
          /\ gt_table[1][k].col = "coverage"
          /\ gt_table[1][k].v = 12
          /\ Round(6) + Round(6) = 16
    /\ \E k \in 1..Len(gt_table[1]) :
          /\ gt_table[1][k].col = "p_ws"
          /\ gt_table[1][k].v.args.n_cond1 = <<12>>

----------------------------------------------------------------------------
(* The three parts share no variable and no call of one changes another's  *)
(* state, so each is checked under its own specification.                  *)

Next == LdNext \/ StNext \/ RtNext

Spec == Init /\ [][Next]_vars

====
